---- MODULE Spec2Model ----
(***************************************************************************)
(* UAV route optimizer: the runner's loop over maps, Map.validate, the     *)
(* shared solver contract, GreedySolver.solve and HeuristicSolver.solve.   *)
(*                                                                         *)
(* Floats are fixed-point integers: a length or coordinate v is held as    *)
(* the integer v * Scale.  A chain of float operations is computed exactly *)
(* in integers and rounded once to the nearest unit (RoundDiv, Sqrt).      *)
(***************************************************************************)
EXTENDS Integers, Sequences, FiniteSets

VARIABLES entry, maps_to_process, i, pc, route, route_length, current_position,
          unsurveyed_objects, surveyed_objects, iteration, results, solve_calls,
          saved

vars == <<entry, maps_to_process, i, pc, route, route_length, current_position,
          unsurveyed_objects, surveyed_objects, iteration, results, solve_calls,
          saved>>

(***************************************************************************)
(* Bounds of the model.                                                    *)
(***************************************************************************)
\* fixed-point units per 1.0
Scale == 200
\* points of a map lie on the integer grid 0..MaxCoord x 0..MaxCoord
MaxCoord == 2
\* a map holds at most MaxObjects objects
MaxObjects == 2
\* max_distance is one of 0..MaxDistance
MaxDistance == 2
\* survey_radius is one of -1..MaxRadius
MaxRadius == 1
\* each map of a pair of maps holds at most MaxPairObjects objects
MaxPairObjects == 3
\* the points of a long map lie on {0, MaxCoord} x 0..MaxLongCoord
MaxLongCoord == 4
\* max_distance of a long map is one of 1..MaxLongDistance
MaxLongDistance == 3
\* a near point lies NearOffset fixed-point units (0.005) right of a grid point
NearOffset == 1
\* the most by which the rounding of a computed point to fixed-point units
\* moves a distance measured from it
RoundingSlack == 2

(***************************************************************************)
(* Program constants.                                                      *)
(***************************************************************************)
\* Point.error, subtracted from every distance_to
error == 1
\* HeuristicSolver.max_iterations
max_iterations == 50

(***************************************************************************)
(* Arithmetic.                                                             *)
(***************************************************************************)
Abs(a) == IF a < 0 THEN -a ELSE a

Min(a, b) == IF a < b THEN a ELSE b

Max(a, b) == IF a > b THEN a ELSE b

\* a / b for b > 0, rounded to the nearest unit
RoundDiv(a, b) == (2 * a + b) \div (2 * b)

RECURSIVE SqrtSearch(_, _, _)
\* the r with lo <= r < hi and r*r <= n < (r+1)*(r+1)
SqrtSearch(n, lo, hi) ==
  IF hi - lo <= 1 THEN lo
  ELSE LET mid == (lo + hi) \div 2
       IN  IF mid * mid <= n THEN SqrtSearch(n, mid, hi)
           ELSE SqrtSearch(n, lo, mid)

\* np.sqrt of n (in squared units), rounded to the nearest unit; the search
\* stays below 46341, whose square is the first to pass 2^31
Sqrt(n) == (SqrtSearch(4 * n, 0, Min(4 * n + 1, 46341)) + 1) \div 2

(***************************************************************************)
(* Point (core/point.py).                                                  *)
(***************************************************************************)
Point(x, y) == [x |-> x, y |-> y]

\* the Euclidean part of distance_to
Euclid(a, b) == Sqrt((a.x - b.x) * (a.x - b.x) + (a.y - b.y) * (a.y - b.y))

distance_to(self, other) == Euclid(self, other) - error * Scale

\* Point.__eq__: both coordinates closer than 0.01
PointEq(self, other) ==
  /\ 100 * Abs(self.x - other.x) < Scale
  /\ 100 * Abs(self.y - other.y) < Scale

\* Point.__hash__: the hash of the pair of coordinates, equal for two points
\* exactly when both coordinates are equal
hash(self) == <<self.x, self.y>>

\* the point a + t * (b - a) for the clamped projection parameter t of p
ClampedProjection(p, a, b) ==
  LET dx == b.x - a.x
      dy == b.y - a.y
      den == dx * dx + dy * dy
      num == (p.x - a.x) * dx + (p.y - a.y) * dy
      t == Max(0, Min(den, num))
  IN  Point(a.x + RoundDiv(t * dx, den), a.y + RoundDiv(t * dy, den))

distance_point_to_segment(self, a, b) ==
  IF b.x - a.x = 0 /\ b.y - a.y = 0
  THEN distance_to(self, a)
  ELSE distance_to(self, ClampedProjection(self, a, b))

(***************************************************************************)
(* Map (core/map.py).                                                      *)
(***************************************************************************)
Map(start, end, objects, max_distance, survey_radius) ==
  [start_point |-> start, end_point |-> end, objects |-> objects,
   max_distance |-> max_distance, survey_radius |-> survey_radius]

\* a radius of zero rejected as well
validate_positive_radius(self) ==
  IF PointEq(self.start_point, self.end_point) THEN FALSE
  ELSE IF self.max_distance <= 0 THEN FALSE
  ELSE IF self.survey_radius <= 0 THEN FALSE
  ELSE IF distance_to(self.start_point, self.end_point) > self.max_distance THEN FALSE
  ELSE TRUE

validate(self) ==
  IF PointEq(self.start_point, self.end_point) THEN FALSE
  ELSE IF self.max_distance <= 0 THEN FALSE
  ELSE IF self.survey_radius < 0 THEN FALSE
  ELSE IF distance_to(self.start_point, self.end_point) > self.max_distance THEN FALSE
  ELSE TRUE

(***************************************************************************)
(* Solver contract (core/solver.py).                                       *)
(***************************************************************************)
RECURSIVE SumHops(_, _)
SumHops(r, k) ==
  IF k >= Len(r) THEN 0
  ELSE distance_to(r[k], r[k + 1]) + SumHops(r, k + 1)

\* the guard off by one: a two-point route counted as empty
calculate_route_distance_short(r) == IF Len(r) <= 2 THEN 0 ELSE SumHops(r, 1)

calculate_route_distance(r) == IF Len(r) < 2 THEN 0 ELSE SumHops(r, 1)

\* the segment's start added in place of the object
get_surveyed_objects_adds_a(map_data, r) ==
  LET full == <<map_data.start_point>> \o r \o <<map_data.end_point>>
  IN  { full[s] : s \in
          { s \in 1..(Len(full) - 1) :
              \E k \in 1..Len(map_data.objects) :
                distance_point_to_segment(map_data.objects[k], full[s], full[s + 1])
                  <= map_data.survey_radius } }

\* the comparison turned round: an object counts when it is far enough
get_surveyed_objects_outside(map_data, r) ==
  LET full == <<map_data.start_point>> \o r \o <<map_data.end_point>>
  IN  { map_data.objects[k] : k \in
          { k \in 1..Len(map_data.objects) :
              \E s \in 1..(Len(full) - 1) :
                distance_point_to_segment(map_data.objects[k], full[s], full[s + 1])
                  >= map_data.survey_radius } }

get_surveyed_objects(map_data, r) ==
  LET full == <<map_data.start_point>> \o r \o <<map_data.end_point>>
  IN  { map_data.objects[k] : k \in
          { k \in 1..Len(map_data.objects) :
              \E s \in 1..(Len(full) - 1) :
                distance_point_to_segment(map_data.objects[k], full[s], full[s + 1])
                  <= map_data.survey_radius } }

(***************************************************************************)
(* GreedySolver helpers (core/greedy.py).                                  *)
(***************************************************************************)
NoPoint == [found |-> FALSE, p |-> Point(0, 0)]

Found(p) == [found |-> TRUE, p |-> p]

\* every position taken to be inside the circle
find_intersection_at_start(start, target, center, radius, noise) == Found(start)

\* the far intersection of the ray and the circle: the offset added
find_intersection_far(start, target, center, radius, noise) ==
  LET dx == target.x - start.x
      dy == target.y - start.y
      dist2 == dx * dx + dy * dy
      dist == Sqrt(dist2)
      dot == (center.x - start.x) * dx + (center.y - start.y) * dy
      closest == Point(start.x + RoundDiv(dot * dx, dist2),
                       start.y + RoundDiv(dot * dy, dist2))
      dist_to_line == Euclid(center, closest)
      offset == Sqrt(radius * radius - dist_to_line * dist_to_line)
  IN  IF dist2 = 0 THEN Found(start)
      ELSE IF distance_to(start, center) <= radius THEN Found(start)
      ELSE IF dot <= 0 THEN NoPoint
      ELSE IF dist_to_line > radius \/ (dist_to_line = radius /\ noise) THEN NoPoint
      ELSE Found(Point(closest.x + RoundDiv(offset * dx, dist),
                       closest.y + RoundDiv(offset * dy, dist)))

\* _find_intersection_with_circle.  The float test dist_to_line > radius is
\* decided by rounding noise when the two are equal in exact arithmetic
\* (the line through the centre, radius 0): `noise` is that outcome.
find_intersection_with_circle(start, target, center, radius, noise) ==
  LET dx == target.x - start.x
      dy == target.y - start.y
      dist2 == dx * dx + dy * dy
      dist == Sqrt(dist2)
      dist_to_center == distance_to(start, center)
      dot == (center.x - start.x) * dx + (center.y - start.y) * dy
      closest == Point(start.x + RoundDiv(dot * dx, dist2),
                       start.y + RoundDiv(dot * dy, dist2))
      dist_to_line == Euclid(center, closest)
      offset == Sqrt(radius * radius - dist_to_line * dist_to_line)
  IN  IF dist2 = 0 THEN Found(start)
      ELSE IF dist_to_center <= radius THEN Found(start)
      ELSE IF dot <= 0 THEN NoPoint
      ELSE IF dist_to_line > radius \/ (dist_to_line = radius /\ noise) THEN NoPoint
      ELSE Found(Point(closest.x - RoundDiv(offset * dx, dist),
                       closest.y - RoundDiv(offset * dy, dist)))

\* _point_to_line_distance
point_to_line_distance(point, line_start, line_end) ==
  LET dx == line_end.x - line_start.x
      dy == line_end.y - line_start.y
      line_length == distance_to(line_start, line_end)
      ll2 == line_length * line_length
      num == (point.x - line_start.x) * dx + (point.y - line_start.y) * dy
      t == Max(0, Min(ll2, num))
      nearest == Point(line_start.x + RoundDiv(t * dx, ll2),
                       line_start.y + RoundDiv(t * dy, ll2))
  IN  IF line_length = 0 THEN distance_to(point, line_start)
      ELSE Euclid(point, nearest)

\* the fuel check without the way back to the end point
TotalNeededNoReturn(m, length, current, intersection) ==
  length + distance_to(current, intersection)

\* the fuel a detour needs: the route so far, the hop to the intersection,
\* and the way from there to the end point
TotalNeeded(m, length, current, intersection) ==
  length + distance_to(current, intersection) + distance_to(intersection, m.end_point)

\* the unsurveyed objects at minimum distance_to from the current position:
\* the loop over the set keeps the first of them in the set's iteration order
NearestObjects(current, unsurveyed) ==
  { o \in unsurveyed :
      \A q \in unsurveyed : distance_to(current, o) <= distance_to(current, q) }

\* the items of a list, as the set built from it: an item is left out when
\* an earlier item has the same __hash__ and is equal by __eq__
SetOf(seq) ==
  { seq[k] : k \in
      { k \in 1..Len(seq) :
          \A l \in 1..(k - 1) :
            ~(hash(seq[l]) = hash(seq[k]) /\ PointEq(seq[l], seq[k])) } }

(***************************************************************************)
(* The runner (runner.py) and the solvers' steps.                          *)
(***************************************************************************)
map_data == maps_to_process[i]

Result(name, r, surveyed, distance) ==
  [map_index |-> i, name |-> name, route |-> r, surveyed_objects |-> surveyed,
   distance |-> distance]

\* GreedySolver.solve, lines 12-18: the locals before the loop
GreedyBegin(m) ==
  /\ route' = <<m.start_point>>
  /\ surveyed_objects' = {}
  /\ current_position' = m.start_point
  /\ route_length' = 0
  /\ unsurveyed_objects' = SetOf(m.objects)
  /\ iteration' = 0

\* the while condition of GreedySolver.solve
GreedyLoopCondition ==
  /\ route_length + distance_to(current_position, map_data.end_point)
       <= map_data.max_distance
  /\ unsurveyed_objects # {}

\* Runner.main, one pass of the loop over maps_to_process up to the first
\* solver's call: an invalid map is skipped
MainNext ==
  /\ pc = "loop"
  /\ entry = "main"
  /\ i <= Len(maps_to_process)
  /\ IF ~validate(map_data)
     THEN /\ i' = i + 1
          /\ UNCHANGED <<pc, route, route_length, current_position,
                         unsurveyed_objects, surveyed_objects, iteration,
                         solve_calls>>
     ELSE /\ pc' = "greedy_loop"
          /\ solve_calls' = Append(solve_calls, <<i, "greedy">>)
          /\ GreedyBegin(map_data)
          /\ UNCHANGED i
  /\ UNCHANGED <<entry, maps_to_process, results, saved>>

\* Runner.run_batch_experiments, one pass of the loop over test_suite up to
\* the first solver's call
BatchNext ==
  /\ pc = "loop"
  /\ entry = "batch"
  /\ i <= Len(maps_to_process)
  /\ pc' = "greedy_loop"
  /\ solve_calls' = Append(solve_calls, <<i, "greedy">>)
  /\ GreedyBegin(map_data)
  /\ UNCHANGED <<entry, maps_to_process, i, results, saved>>

\* one iteration of the greedy loop
GreedyIter ==
  /\ pc = "greedy_loop"
  /\ GreedyLoopCondition
  /\ \E nearest_object \in NearestObjects(current_position, unsurveyed_objects),
        noise \in BOOLEAN :
       LET found == find_intersection_with_circle(current_position, nearest_object,
                      nearest_object, map_data.survey_radius, noise)
           intersection == found.p
           new_route_length == route_length + distance_to(current_position, intersection)
           total_needed == TotalNeeded(map_data, route_length, current_position,
                                       intersection)
           objects_to_survey == { obj \in unsurveyed_objects :
                                    distance_to(intersection, obj) <= map_data.survey_radius }
       IN  IF ~found.found
           THEN /\ unsurveyed_objects' = unsurveyed_objects \ {nearest_object}
                /\ UNCHANGED <<pc, route, route_length, current_position,
                               surveyed_objects>>
           ELSE IF total_needed > map_data.max_distance
           THEN /\ pc' = "greedy_post"
                /\ UNCHANGED <<route, route_length, current_position,
                               unsurveyed_objects, surveyed_objects>>
           ELSE /\ route' = Append(route, intersection)
                /\ route_length' = new_route_length
                /\ current_position' = intersection
                /\ surveyed_objects' = surveyed_objects \cup objects_to_survey
                /\ unsurveyed_objects' = unsurveyed_objects \ objects_to_survey
                /\ UNCHANGED pc
  /\ UNCHANGED <<entry, maps_to_process, i, iteration, results, solve_calls, saved>>

\* the objects the post-loop step of GreedySolver.solve adds
GreedyOnPathToEnd ==
  IF unsurveyed_objects # {}
     /\ route_length + distance_to(current_position, map_data.end_point)
          <= map_data.max_distance
  THEN { obj \in unsurveyed_objects :
           point_to_line_distance(obj, current_position, map_data.end_point)
             <= map_data.survey_radius }
  ELSE {}

\* GreedySolver.solve after the loop: the objects on the path to end, the
\* completed route, and the result the runner stores
GreedyFinish ==
  /\ \/ pc = "greedy_post"
     \/ pc = "greedy_loop" /\ ~GreedyLoopCondition
  /\ LET final_route == Append(route, map_data.end_point)
         final_surveyed == surveyed_objects \cup GreedyOnPathToEnd
     IN  /\ results' = Append(results, Result("greedy", final_route, final_surveyed,
                                              calculate_route_distance(final_route)))
         /\ route' = final_route
         /\ surveyed_objects' = final_surveyed
  /\ pc' = "heur_init"
  /\ UNCHANGED <<entry, maps_to_process, i, route_length, current_position,
                 unsurveyed_objects, iteration, solve_calls, saved>>

(***************************************************************************)
(* HeuristicSolver helpers (core/heuristic.py).                            *)
(***************************************************************************)
\* list.remove(p): the list without its first item equal (__eq__) to p
RemoveFirstEq(seq, p) ==
  LET at == CHOOSE k \in 1..Len(seq) :
              PointEq(seq[k], p) /\ \A l \in 1..(k - 1) : ~PointEq(seq[l], p)
  IN  SubSeq(seq, 1, at - 1) \o SubSeq(seq, at + 1, Len(seq))

\* min(remaining, key = distance from current): the first minimal item
ClosestObject(current, remaining) ==
  LET at == CHOOSE k \in 1..Len(remaining) :
              /\ \A l \in 1..Len(remaining) :
                   distance_to(current, remaining[k]) <= distance_to(current, remaining[l])
              /\ \A l \in 1..(k - 1) :
                   distance_to(current, remaining[l]) > distance_to(current, remaining[k])
  IN  remaining[at]

RECURSIVE InitialChain(_, _, _)
\* the while loop of _greedy_initial_route
InitialChain(r, remaining, current) ==
  IF remaining = <<>> THEN r
  ELSE LET closest_obj == ClosestObject(current, remaining)
       IN  InitialChain(Append(r, closest_obj), RemoveFirstEq(remaining, closest_obj),
                        closest_obj)

\* remaining_objects bound to the map's own list: the while loop empties it
map_objects_aliased(m) == <<>>

\* the map's objects list after _greedy_initial_route: remaining_objects is
\* a copy (line 53), and the while loop removes from the copy only
map_objects_after_initial_route(m) == m.objects

\* _greedy_initial_route
greedy_initial_route(m) ==
  Append(InitialChain(<<m.start_point>>, m.objects, m.start_point), m.end_point)

\* route[:a] + route[a:b+1][::-1] + route[b+1:], for positions a..b counted from 1
ReverseSegment(r, a, b) ==
  [k \in 1..Len(r) |-> IF a <= k /\ k <= b THEN r[a + b - k] ELSE r[k]]

\* the scan started at index 0, so that a reversal may move the start point
TwoOptPairsFromStart(r) ==
  { pr \in (1..(Len(r) - 2)) \X (2..(Len(r) - 1)) : pr[1] < pr[2] }

\* the inner loop cut short: only neighbouring positions are reversed
TwoOptPairsAdjacent(r) ==
  { pr \in (2..(Len(r) - 2)) \X (3..(Len(r) - 1)) : pr[2] = pr[1] + 1 }

\* the pairs the two for loops of _local_search_2opt scan (positions from 1)
TwoOptPairs(r) ==
  { pr \in (2..(Len(r) - 2)) \X (3..(Len(r) - 1)) : pr[1] < pr[2] }

RECURSIVE local_search_2opt(_)
\* _local_search_2opt: take the first pair of the scan whose reversal is
\* strictly shorter, restart the scan; stop when a scan finds none
local_search_2opt(r) ==
  LET best_distance == calculate_route_distance(r)
      improving == { pr \in TwoOptPairs(r) :
                       calculate_route_distance(ReverseSegment(r, pr[1], pr[2]))
                         < best_distance }
      first == CHOOSE pr \in improving :
                 \A q \in improving :
                   pr[1] < q[1] \/ (pr[1] = q[1] /\ pr[2] <= q[2])
  IN  IF improving = {} THEN r
      ELSE local_search_2opt(ReverseSegment(r, first[1], first[2]))

\* _project_point_on_segment
project_point_on_segment(point, seg_start, seg_end) ==
  IF (seg_end.x - seg_start.x) * (seg_end.x - seg_start.x)
       + (seg_end.y - seg_start.y) * (seg_end.y - seg_start.y) = 0
  THEN seg_start
  ELSE ClampedProjection(point, seg_start, seg_end)

\* _optimize_point_position
optimize_point_position(m, obj_point, prev_point, next_point) ==
  LET projection == project_point_on_segment(obj_point, prev_point, next_point)
      to_proj_x == projection.x - obj_point.x
      to_proj_y == projection.y - obj_point.y
      dist_to_proj == Sqrt(to_proj_x * to_proj_x + to_proj_y * to_proj_y)
  IN  IF dist_to_proj = 0 THEN obj_point
      ELSE IF dist_to_proj <= m.survey_radius THEN projection
      ELSE Point(obj_point.x + RoundDiv(to_proj_x * m.survey_radius, dist_to_proj),
                 obj_point.y + RoundDiv(to_proj_y * m.survey_radius, dist_to_proj))

\* the position _geometric_optimization gives route point k (an interior one)
OptimizedPoint(m, r, k) ==
  LET near == { n \in 1..Len(m.objects) :
                  distance_to(r[k], m.objects[n]) <= m.survey_radius }
      original_obj == m.objects[CHOOSE n \in near : \A l \in near : n <= l]
      new_position == optimize_point_position(m, original_obj, r[k - 1], r[k + 1])
      old_dist == distance_to(r[k - 1], r[k]) + distance_to(r[k], r[k + 1])
      new_dist == distance_to(r[k - 1], new_position) + distance_to(new_position, r[k + 1])
  IN  IF near = {} THEN r[k]
      ELSE IF new_dist < old_dist THEN new_position
      ELSE r[k]

\* _geometric_optimization: every interior point is judged against the
\* neighbours of the route as given
geometric_optimization(m, r) ==
  [k \in 1..Len(r) |-> IF 1 < k /\ k < Len(r) THEN OptimizedPoint(m, r, k) ELSE r[k]]

\* route[:k] + route[k+1:], for position k counted from 1
WithoutPoint(r, k) == SubSeq(r, 1, k - 1) \o SubSeq(r, k + 1, Len(r))

\* _remove_farthest_point
remove_farthest_point(m, r) ==
  LET min_distance == calculate_route_distance(r)
      better == { k \in 2..(Len(r) - 1) :
                    calculate_route_distance(WithoutPoint(r, k)) < min_distance }
      best == CHOOSE k \in better :
                \A l \in better :
                  \/ calculate_route_distance(WithoutPoint(r, k))
                       < calculate_route_distance(WithoutPoint(r, l))
                  \/ /\ calculate_route_distance(WithoutPoint(r, k))
                          = calculate_route_distance(WithoutPoint(r, l))
                     /\ k <= l
  IN  IF Len(r) <= 3 THEN <<m.start_point, m.end_point>>
      ELSE IF better = {} THEN r
      ELSE WithoutPoint(r, best)

(***************************************************************************)
(* HeuristicSolver.solve, step by step, and the end of the runner's pass.  *)
(***************************************************************************)
\* the solver is constructed and solve builds the initial route
HeurBegin ==
  /\ pc = "heur_init"
  /\ solve_calls' = Append(solve_calls, <<i, "heuristic">>)
  /\ route' = greedy_initial_route(map_data)
  /\ iteration' = 0
  /\ pc' = IF 0 < max_iterations THEN "heur_2opt" ELSE "heur_finish"
  /\ surveyed_objects' = {}
  /\ unsurveyed_objects' = {}
  /\ route_length' = 0
  /\ current_position' = map_data.start_point
  /\ maps_to_process' = [maps_to_process EXCEPT
                           ![i].objects = map_objects_after_initial_route(map_data)]
  /\ UNCHANGED <<entry, i, results, saved>>

\* step 2a: local search
HeurTwoOpt ==
  /\ pc = "heur_2opt"
  /\ route' = local_search_2opt(route)
  /\ pc' = "heur_geo"
  /\ UNCHANGED <<entry, maps_to_process, i, route_length, current_position,
                 unsurveyed_objects, surveyed_objects, iteration, results,
                 solve_calls, saved>>

\* step 2b: geometric optimization
HeurGeometric ==
  /\ pc = "heur_geo"
  /\ route' = geometric_optimization(map_data, route)
  /\ pc' = "heur_check"
  /\ UNCHANGED <<entry, maps_to_process, i, route_length, current_position,
                 unsurveyed_objects, surveyed_objects, iteration, results,
                 solve_calls, saved>>

\* the round without its counter: iteration += 1 left out
HeurCheckNoCount ==
  /\ pc = "heur_check"
  /\ IF calculate_route_distance(route) <= map_data.max_distance
     THEN /\ pc' = "heur_finish"
          /\ UNCHANGED route
     ELSE LET repaired == remove_farthest_point(map_data, route)
          IN  /\ route' = repaired
              /\ pc' = IF Len(repaired) <= 2 THEN "heur_finish" ELSE "heur_2opt"
  /\ UNCHANGED <<entry, maps_to_process, i, route_length, current_position,
                 unsurveyed_objects, surveyed_objects, iteration, results,
                 solve_calls, saved>>

\* steps 2c and 2d: the constraint check, the repair, and the loop's exits
HeurCheck ==
  /\ pc = "heur_check"
  /\ IF calculate_route_distance(route) <= map_data.max_distance
     THEN /\ pc' = "heur_finish"
          /\ UNCHANGED <<route, iteration>>
     ELSE LET repaired == remove_farthest_point(map_data, route)
          IN  /\ route' = repaired
              /\ IF Len(repaired) <= 2
                 THEN /\ pc' = "heur_finish"
                      /\ UNCHANGED iteration
                 ELSE /\ iteration' = iteration + 1
                      /\ pc' = IF iteration + 1 < max_iterations
                               THEN "heur_2opt" ELSE "heur_finish"
  /\ UNCHANGED <<entry, maps_to_process, i, route_length, current_position,
                 unsurveyed_objects, surveyed_objects, results, solve_calls, saved>>

\* HeuristicSolver.solve after the loop, the result the runner stores, and
\* the rest of the runner's pass: main saves the map's results, the batch
\* run only collects them
HeurFinish ==
  /\ pc = "heur_finish"
  /\ LET surveyed == get_surveyed_objects(map_data, route)
     IN  /\ results' = Append(results, Result("heuristic", route, surveyed,
                                              calculate_route_distance(route)))
         /\ surveyed_objects' = surveyed
  /\ saved' = IF entry = "main" THEN saved \cup {i} ELSE saved
  /\ i' = i + 1
  /\ pc' = "loop"
  /\ UNCHANGED <<entry, maps_to_process, route, route_length, current_position,
                 unsurveyed_objects, iteration, solve_calls>>

\* the loop over the maps is over
AllTasksCompleted ==
  /\ pc = "loop"
  /\ i > Len(maps_to_process)
  /\ pc' = "done"
  /\ UNCHANGED <<entry, maps_to_process, i, route, route_length, current_position,
                 unsurveyed_objects, surveyed_objects, iteration, results,
                 solve_calls, saved>>

(***************************************************************************)
(* The inputs and the specification.                                       *)
(***************************************************************************)
Grid == { Point(gx * Scale, gy * Scale) : gx \in 0..MaxCoord, gy \in 0..MaxCoord }

RECURSIVE SeqsUpTo(_, _)
\* the lists of at most n items of S
SeqsUpTo(S, n) ==
  IF n = 0 THEN { <<>> }
  ELSE LET shorter == SeqsUpTo(S, n - 1)
       IN  shorter \cup { Append(q, e) : q \in shorter, e \in S }

Distances == { d * Scale : d \in 0..MaxDistance }

Radii == { r * Scale : r \in (-1)..MaxRadius }

\* the start points of the maps: the corner of the grid
Starts == { Point(0, 0) }

\* the locals of the solvers before any solve call
Idle ==
  /\ i = 1
  /\ pc = "loop"
  /\ route = <<>>
  /\ route_length = 0
  /\ current_position = Point(0, 0)
  /\ unsurveyed_objects = {}
  /\ surveyed_objects = {}
  /\ iteration = 0
  /\ results = <<>>
  /\ solve_calls = <<>>
  /\ saved = {}

\* main processes one map: any start and end, objects, budget and radius
Init ==
  /\ entry = "main"
  /\ \E start \in Starts, end \in Grid, objects \in SeqsUpTo(Grid, MaxObjects) :
       maps_to_process \in
         { <<Map(start, end, objects, d, r)>> : d \in Distances, r \in Radii }
  /\ Idle

\* the steps of the two solve calls on one map
SolveSteps ==
  \/ GreedyIter
  \/ GreedyFinish
  \/ HeurBegin
  \/ HeurTwoOpt
  \/ HeurGeometric
  \/ HeurCheck
  \/ HeurFinish

Next ==
  \/ MainNext
  \/ SolveSteps
  \/ AllTasksCompleted

Spec == Init /\ [][Next]_vars

\* run_batch_experiments processes one map with a positive budget and a
\* radius that is not negative
InitBatch ==
  /\ entry = "batch"
  /\ \E start \in Starts, end \in Grid, objects \in SeqsUpTo(Grid, MaxObjects) :
       maps_to_process \in
         { <<Map(start, end, objects, d * Scale, r * Scale)>> :
             d \in 1..MaxDistance, r \in 0..MaxRadius }
  /\ Idle

NextBatch ==
  \/ BatchNext
  \/ SolveSteps
  \/ AllTasksCompleted

SpecBatch == InitBatch /\ [][NextBatch]_vars

\* the lists of at most n distinct items of S
DistinctSeqsUpTo(S, n) ==
  { q \in SeqsUpTo(S, n) :
      \A k \in 1..Len(q), l \in 1..Len(q) : q[k] = q[l] => k = l }

\* main processes two maps that differ only in their survey radius: the
\* first radius is half a unit smaller than the second, a whole number of
\* units; the objects are distinct and the budget is one unit
InitPairs ==
  /\ entry = "main"
  /\ \E start \in Starts, end \in Grid,
        objects \in DistinctSeqsUpTo(Grid, MaxPairObjects),
        r \in 1..MaxRadius :
       maps_to_process =
         <<Map(start, end, objects, Scale, r * Scale - Scale \div 2),
           Map(start, end, objects, Scale, r * Scale)>>
  /\ Idle

SpecPairs == InitPairs /\ [][Next]_vars

\* the points of a long map: two columns of the grid, stretched upwards
LongGrid == { Point(gx * Scale, gy * Scale) : gx \in {0, MaxCoord}, gy \in 0..MaxLongCoord }

\* main processes one long map: the end point straight above the start,
\* distinct objects, a survey radius of half a unit
InitLong ==
  /\ entry = "main"
  /\ \E gy \in 0..MaxLongCoord, objects \in DistinctSeqsUpTo(LongGrid, MaxObjects),
        d \in 1..MaxLongDistance :
       maps_to_process =
         <<Map(Point(0, 0), Point(0, gy * Scale), objects, d * Scale, Scale \div 2)>>
  /\ Idle

SpecLong == InitLong /\ [][Next]_vars

\* the points of a near map: grid points of the two lower rows, and the
\* points NearOffset to the right of them
NearGrid ==
  { Point(gx * Scale + dx, gy * Scale) :
      gx \in 0..MaxCoord, gy \in 0..1, dx \in {0, NearOffset} }

\* main processes one map whose objects may nearly coincide
InitNear ==
  /\ entry = "main"
  /\ \E end \in Grid, objects \in SeqsUpTo(NearGrid, MaxObjects),
        d \in 1..MaxDistance, r \in 0..MaxRadius :
       maps_to_process = <<Map(Point(0, 0), end, objects, d * Scale, r * Scale)>>
  /\ Idle

SpecNear == InitNear /\ [][Next]_vars

(***************************************************************************)
(* The claims.                                                             *)
(***************************************************************************)
\* the map a stored result belongs to
MapOf(res) == maps_to_process[res.map_index]

\* the stored results of one strategy
ResultsOf(name) == { results[k] : k \in { k \in 1..Len(results) : results[k].name = name } }

AllResults == ResultsOf("greedy") \cup ResultsOf("heuristic")

\* C1: the greedy route never costs more than max_distance: in the loop the
\* accumulated length plus the way from the current position to the end
\* stays within the budget, and so does the distance of the returned route.
GreedyRouteWithinBudget ==
  /\ pc \in {"greedy_loop", "greedy_post"} =>
       route_length + distance_to(current_position, map_data.end_point)
         <= map_data.max_distance
  /\ \A res \in ResultsOf("greedy") :
       calculate_route_distance(res.route) <= MapOf(res).max_distance

\* a greedy route with a committed detour to a point other than the start
GreedyDetourReturned ==
  \E res \in ResultsOf("greedy") :
    /\ Len(res.route) >= 3
    /\ res.route[2] # MapOf(res).start_point
    /\ res.surveyed_objects # {}

\* C2: the route the heuristic returns for a validated map costs at most
\* max_distance, whichever way its loop ends.
HeuristicRouteWithinBudget ==
  \A res \in ResultsOf("heuristic") :
    validate(MapOf(res)) =>
      calculate_route_distance(res.route) <= MapOf(res).max_distance

\* a route from the start point to the end point of m, of at least two points
IsRouteOf(r, m) ==
  /\ Len(r) >= 2
  /\ r[1] = m.start_point
  /\ r[Len(r)] = m.end_point

\* C3: every returned route, and the heuristic's route after each of its
\* steps, has at least two points, starts at start and ends at end.
RoutesRunStartToEnd ==
  /\ \A res \in AllResults : IsRouteOf(res.route, MapOf(res))
  /\ pc \in {"heur_2opt", "heur_geo", "heur_check", "heur_finish"} =>
       IsRouteOf(route, map_data)

\* the heuristic after a repair and a further round of 2-opt and geometric
\* optimization that left a route other than the initial one
HeuristicRouteReworked ==
  /\ pc = "heur_finish"
  /\ iteration >= 1
  /\ Len(route) >= 3
  /\ route # greedy_initial_route(map_data)

\* C4: a returned surveyed set, and the surveyed objects of the route a
\* solver holds, are objects of the map.
SurveyedAreMapObjects ==
  /\ \A res \in AllResults : res.surveyed_objects \subseteq SetOf(MapOf(res).objects)
  /\ pc \in {"greedy_post", "heur_2opt", "heur_geo", "heur_check", "heur_finish"} =>
       get_surveyed_objects(map_data, route) \subseteq SetOf(map_data.objects)

\* both strategies returned a surveyed object along a route with a waypoint
\* that is neither an object nor the start or end point
SurveyedAlongWaypoints ==
  \A name \in {"greedy", "heuristic"} :
    \E res \in ResultsOf(name) :
      /\ res.surveyed_objects # {}
      /\ \E k \in 1..Len(res.route) :
           res.route[k] \notin SetOf(MapOf(res).objects)
                                 \cup {MapOf(res).start_point, MapOf(res).end_point}

\* a step of the heuristic's round leaves a route that is not longer
StepDoesNotLengthen ==
  pc \in {"heur_2opt", "heur_geo", "heur_check"} =>
    calculate_route_distance(route') <= calculate_route_distance(route)

\* C5: no step of the heuristic's round (2-opt, geometric optimization,
\* check and repair) returns a longer route than it was given.
HeuristicStepsNeverLengthen == [][StepDoesNotLengthen]_vars

\* C6: the surveyed set a solver returns is the set of objects within
\* survey_radius of a segment of the returned route (stated for a positive
\* radius, where the rounding noise of the intersection plays no part).
SurveyedIsCoverageOfRoute ==
  \A res \in AllResults :
    MapOf(res).survey_radius > 0 =>
      res.surveyed_objects = get_surveyed_objects(MapOf(res), res.route)

\* C7: on a map without objects both strategies return the route
\* <<start, end>>, no surveyed object, and the distance from start to end.
EmptyMapGivesDirectRoute ==
  \A res \in AllResults :
    MapOf(res).objects = <<>> =>
      /\ res.route = <<MapOf(res).start_point, MapOf(res).end_point>>
      /\ res.surveyed_objects = {}
      /\ res.distance = distance_to(MapOf(res).start_point, MapOf(res).end_point)

\* both strategies have returned on a map without objects whose end point
\* is more than one unit away
EmptyMapSolved ==
  /\ pc = "done"
  /\ maps_to_process[1].objects = <<>>
  /\ Euclid(maps_to_process[1].start_point, maps_to_process[1].end_point) > error * Scale
  /\ Len(results) = 2

\* the maps main has decided on: those before the current one, and the
\* current one once its first solver runs
Decided(k) == k < i \/ (k = i /\ pc \notin {"loop", "done"})

Solved(k) == \E c \in 1..Len(solve_calls) : solve_calls[c][1] = k

SolveOnlyOnValidMaps ==
  \A c \in 1..Len(solve_calls) : validate(maps_to_process[solve_calls[c][1]])

\* the result is a route within the budget of its map
WithinBudget(res) == calculate_route_distance(res.route) <= MapOf(res).max_distance

\* C10 as stated: of two validated maps that differ only in survey_radius,
\* the one with the larger radius gets at least as many surveyed objects
\* (stated for the heuristic, whose result does not depend on the iteration
\* order of a set, and for routes within the budget).
LargerRadiusSurveysNoFewer ==
  \A ra \in ResultsOf("heuristic"), rb \in ResultsOf("heuristic") :
    /\ ra.map_index = 1
    /\ rb.map_index = 2
    /\ WithinBudget(ra)
    /\ WithinBudget(rb)
    => Cardinality(rb.surveyed_objects) >= Cardinality(ra.surveyed_objects)

\* C10 amended: along one fixed route a larger survey radius surveys every
\* object a smaller one does, so the count of surveyed objects of that route
\* does not decrease.
LargerRadiusSurveysNoFewerOnRoute ==
  pc = "done" =>
    \A res \in AllResults :
      get_surveyed_objects(maps_to_process[1], res.route)
        \subseteq get_surveyed_objects(maps_to_process[2], res.route)

\* a returned route along which the larger of the two radii surveys more
\* objects than the smaller
RadiusGrowsCoverageOfRoute ==
  /\ pc = "done"
  /\ \E res \in AllResults :
       Cardinality(get_surveyed_objects(maps_to_process[1], res.route))
         < Cardinality(get_surveyed_objects(maps_to_process[2], res.route))

\* a solve step leaves every map and every stored result as it was
SolveStepKeepsMaps ==
  /\ maps_to_process' = maps_to_process
  /\ \A k \in 1..Len(results) : Len(results') >= k /\ results'[k] = results[k]

\* C11: no step of either solve call changes a Map (objects in contents and
\* order, start, end, max_distance, survey_radius), and a result once
\* returned is not changed by a later solve call.
SolveLeavesMapUnchanged == [][SolveStepKeepsMaps]_vars

\* both strategies have returned on a map of two objects; the greedy moved
\* objects out of its working set and the heuristic chained both objects
MapSolvedByBoth ==
  /\ pc = "done"
  /\ Len(maps_to_process[1].objects) = 2
  /\ Len(results) = 2
  /\ results[1].surveyed_objects # {}
  /\ Len(results[2].route) = 4

\* the Euclidean distance from p to the nearest point of the segment a-b
SegmentDistance(p, a, b) ==
  IF a.x = b.x /\ a.y = b.y THEN Euclid(p, a)
  ELSE Euclid(p, ClampedProjection(p, a, b))

\* C12: when the greedy returns and the budget permits reaching end from
\* the last waypoint, every object still uncovered that lies within
\* survey_radius of the final segment (at exactly survey_radius included) is
\* in the returned surveyed set, and the step added no waypoint and no
\* distance: the route is the waypoints followed by end.
PostLoopSurveysFinalSegment ==
  pc = "heur_init" =>
    /\ route[Len(route) - 1] = current_position
    /\ calculate_route_distance(route)
         = route_length + distance_to(current_position, map_data.end_point)
    /\ route_length + distance_to(current_position, map_data.end_point)
         <= map_data.max_distance =>
           \A obj \in unsurveyed_objects :
             SegmentDistance(obj, current_position, map_data.end_point)
               <= map_data.survey_radius => obj \in surveyed_objects

\* C13: two points whose coordinates each differ by less than 0.01 are equal
\* and have the same hash, so the greedy's uncovered and surveyed sets hold
\* them as one element.
NearPointsAreOneElement ==
  /\ \A n \in 1..Len(maps_to_process) :
       \A k \in 1..Len(maps_to_process[n].objects),
          l \in 1..Len(maps_to_process[n].objects) :
         PointEq(maps_to_process[n].objects[k], maps_to_process[n].objects[l])
           => hash(maps_to_process[n].objects[k]) = hash(maps_to_process[n].objects[l])
  /\ pc \in {"greedy_loop", "greedy_post"} =>
       \A a \in unsurveyed_objects \cup surveyed_objects,
          b \in unsurveyed_objects \cup surveyed_objects :
         PointEq(a, b) => a = b

\* the number of places of a list that hold p
Count(seq, p) == Cardinality({ k \in 1..Len(seq) : seq[k] = p })

\* the two lists hold the same items, each as many times
IsPermutationOf(a, b) ==
  /\ Len(a) = Len(b)
  /\ \A k \in 1..Len(a) : Count(a, a[k]) = Count(b, a[k])

\* C16: the heuristic's initial route is start, every object of the map
\* exactly once, each a nearest of those not yet visited, and end: its
\* length is the number of objects plus two.
InitialRouteVisitsEveryObject ==
  (pc = "heur_2opt" /\ iteration = 0) =>
    /\ Len(route) = Len(map_data.objects) + 2
    /\ IsRouteOf(route, map_data)
    /\ IsPermutationOf(SubSeq(route, 2, Len(route) - 1), map_data.objects)
    /\ \A k \in 2..(Len(route) - 1) :
         \A l \in k..(Len(route) - 1) :
           distance_to(route[k - 1], route[k]) <= distance_to(route[k - 1], route[l])

\* a round of the heuristic's loop is one of the first max_iterations rounds
RoundWithinCap ==
  pc \in {"heur_2opt", "heur_geo", "heur_check"} => iteration < max_iterations

\* the check of a round whose route is within the budget ends the loop
FeasibleRoundExits ==
  (pc = "heur_check" /\ calculate_route_distance(route) <= map_data.max_distance)
    => (pc' = "heur_finish" /\ route' = route)

\* how far a solve call of the heuristic has come: four steps to a round
HeurProgress ==
  4 * iteration + (CASE pc = "heur_init" -> 0
                     [] pc = "heur_2opt" -> 1
                     [] pc = "heur_geo" -> 2
                     [] pc = "heur_check" -> 3
                     [] OTHER -> 4)

\* every step of the heuristic's solve call brings it further
HeurStepAdvances ==
  pc \in {"heur_init", "heur_2opt", "heur_geo", "heur_check"}
    => HeurProgress' > HeurProgress

\* C14: HeuristicSolver.solve terminates on every map: at most
\* max_iterations rounds are run, every step of a round (the 2-opt pass
\* included) ends and brings the call further along a bounded measure, and
\* the loop exits in the first round whose route is within the budget.
HeuristicSolveTerminates ==
  /\ []RoundWithinCap
  /\ [](HeurProgress <= 4 * max_iterations + 4)
  /\ [][FeasibleRoundExits /\ HeurStepAdvances]_vars

\* the loop ended by the cap: max_iterations rounds were run and the route
\* is still over the budget
CapExhausted ==
  /\ pc = "heur_finish"
  /\ iteration = max_iterations
  /\ calculate_route_distance(route) > map_data.max_distance

\* the repair of a round over the budget: a route of more than three points
\* loses the interior point whose removal leaves the shortest route, a
\* route of at most three points becomes <<start, end>>
RepairRemovesBestPoint ==
  (pc = "heur_check" /\ calculate_route_distance(route) > map_data.max_distance) =>
    IF Len(route) > 3
    THEN /\ Len(route') = Len(route) - 1
         /\ \E k \in 2..(Len(route) - 1) :
              /\ route' = WithoutPoint(route, k)
              /\ \A l \in 2..(Len(route) - 1) :
                   calculate_route_distance(WithoutPoint(route, k))
                     <= calculate_route_distance(WithoutPoint(route, l))
    ELSE route' = <<map_data.start_point, map_data.end_point>>

\* C15: the heuristic's repair of a route of more than three points removes
\* exactly one interior point, one whose removal gives the minimum total
\* distance, so the route shrinks by one point in every round over the
\* budget; a route of at most three points collapses to <<start, end>>.
RepairShrinksRoute == [][RepairRemovesBestPoint]_vars

\* the greedy loop commits a waypoint in this step
GreedyCommits == pc = "greedy_loop" /\ pc' = "greedy_loop" /\ Len(route') = Len(route) + 1

\* the waypoint committed in this step is the near point of the circle of
\* some nearest object o: on the segment from the current position to o, at
\* Euclidean distance survey_radius from o; and o is surveyed
EntryOnCircleOfNearest ==
  \E o \in NearestObjects(current_position, unsurveyed_objects) :
    /\ Abs(Euclid(route'[Len(route')], o) - map_data.survey_radius) <= RoundingSlack
    /\ SegmentDistance(route'[Len(route')], current_position, o) <= RoundingSlack
    /\ o \in surveyed_objects'

\* a commit from a position farther than survey_radius, in Euclidean terms,
\* from the nearest object enters that object's circle at its near point
EntryFromOutsideDisk ==
  (/\ GreedyCommits
   /\ \A o \in NearestObjects(current_position, unsurveyed_objects) :
        Euclid(current_position, o) > map_data.survey_radius)
    => EntryOnCircleOfNearest

EntryFromOutsideBiasedDisk ==
  (/\ GreedyCommits
   /\ \A o \in NearestObjects(current_position, unsurveyed_objects) :
        distance_to(current_position, o) > map_data.survey_radius)
    => EntryOnCircleOfNearest

TwoOptStepIsLocalOptimum ==
  pc = "heur_2opt" =>
    /\ Len(route') = Len(route)
    /\ route'[1] = route[1]
    /\ route'[Len(route')] = route[Len(route)]
    /\ IsPermutationOf(SubSeq(route', 2, Len(route') - 1),
                       SubSeq(route, 2, Len(route) - 1))
    /\ \A a \in 2..(Len(route') - 1) :
         \A b \in (a + 1)..(Len(route') - 1) :
           calculate_route_distance(ReverseSegment(route', a, b))
             >= calculate_route_distance(route')

\* C18: the 2-opt pass returns a reordering of the interior points of its
\* input with the first and last point unchanged, and the returned route is
\* 2-opt locally optimal: no reversal of an interior sub-route is strictly
\* shorter.
TwoOptReturnsLocalOptimum == [][TwoOptStepIsLocalOptimum]_vars

\* the first 2-opt pass reordered a route of three interior points
TwoOptReordered ==
  /\ pc = "heur_geo"
  /\ iteration = 0
  /\ Len(route) = 5
  /\ route # greedy_initial_route(map_data)

\* an iteration of the greedy loop that does not leave the loop takes at
\* least one object out of the uncovered set; a commit moves a nearest
\* object, within survey_radius of the new waypoint, to the surveyed set
GreedyIterationShrinks ==
  (pc = "greedy_loop" /\ pc' = "greedy_loop") =>
    /\ unsurveyed_objects' \subseteq unsurveyed_objects
    /\ unsurveyed_objects' # unsurveyed_objects
    /\ GreedyCommits =>
         \E o \in NearestObjects(current_position, unsurveyed_objects) :
           /\ distance_to(route'[Len(route')], o) <= map_data.survey_radius
           /\ o \in surveyed_objects'
           /\ o \notin unsurveyed_objects'

\* in the greedy loop the uncovered and the surveyed objects are disjoint
\* sets of map objects, and each waypoint committed so far took an object
\* out of the uncovered set
GreedySetsDisjoint ==
  pc \in {"greedy_loop", "greedy_post"} =>
    /\ unsurveyed_objects \cap surveyed_objects = {}
    /\ unsurveyed_objects \cup surveyed_objects \subseteq SetOf(map_data.objects)
    /\ (Len(route) - 1) + Cardinality(unsurveyed_objects)
         <= Cardinality(SetOf(map_data.objects))

\* C19: GreedySolver.solve terminates on every validated map: an iteration
\* that does not exit strictly shrinks the uncovered set (the nearest object
\* is dropped, or is surveyed from the committed waypoint), so the loop runs
\* at most |objects| iterations, and the uncovered and surveyed sets stay
\* disjoint.
GreedySolveTerminates ==
  /\ []GreedySetsDisjoint
  /\ [][GreedyIterationShrinks]_vars

\* the greedy loop ran twice and each commit surveyed one of two objects
GreedyLoopedTwice ==
  /\ pc = "greedy_loop"
  /\ Len(route) = 3
  /\ Cardinality(surveyed_objects) = 2
  /\ unsurveyed_objects = {}
  /\ route[3] # route[2]

====
